---- MODULE Spec2Model ----
(***************************************************************************)
(* Model of the tick-driven side-scroller engine state$ of src/src/state.ts *)
(* (lines 386-832): the physics reducer stepReducer, the flap, start, reset *)
(* and ghost-playback reducers folded by one scan, the per-run RNG, the     *)
(* per-run recorder and the session-wide recording catalog ghostFramesAll$. *)
(*                                                                         *)
(* Units.  The source computes with IEEE doubles; the model computes the   *)
(* same formulas in exact fixed point:                                     *)
(*   time      : milliseconds           (dt = TICK_RATE_MS = 16)           *)
(*   velocity  : 1/VScale px/s                                             *)
(*   height    : 1/YScale px, YScale chosen so that vy*dt is exact         *)
(*   pipe x    : px (PIPE_SPEED*dt = 4 px is a whole number)               *)
(*   RNG value : the top RBits bits of the 32-bit seed, i.e. value*2^RBits *)
(* The 32-bit seed is kept exactly, as two 16-bit halves.                  *)
(***************************************************************************)
EXTENDS Integers, Sequences, FiniteSets, TLC

VARIABLES
    s,              \* the State folded by scan (runBaseRaw$)
    ghostFramesAll, \* the recording catalog (BehaviorSubject value)
    pipeDefs,       \* parsePipes(csvContents): the schedule
    seed,           \* the scan state of randomForRun$
    clicked,        \* startClick$ has emitted (take(1) consumed)
    armed,          \* gameOver$ has emitted: restartKey$ is subscribed
    framesList,     \* the catalog snapshot taken at the start click
    ghostOn,        \* the ghost tick$ is subscribed (snapshot not empty)
    ghostIdx,       \* the scan state of idx$
    rec,            \* the shareReplay buffer of thisRunRecording$
    pc,             \* position inside the interval callback
    runs,           \* runs finalized so far in the session
    idleTicks,      \* ticks this run received before its start click
    endedTicks,     \* ticks this run received after gameEnd
    sinceStart,     \* ticks this run received since its start click
    sessionTicks,   \* ticks of the whole session
    flaps,          \* pointer-downs after start, whole session
    earlyR,         \* R key presses that found no listener, whole session
    lossAt,         \* history: elapsed of the run's last life loss, -1 if none
    burst,          \* input pattern of the run: rapid taps from the start click
    inputs          \* history: per run, its idle ticks and the ticks of its flaps

vars == <<s, ghostFramesAll, pipeDefs, seed, clicked, armed, framesList,
          ghostOn, ghostIdx, rec, pc, runs, idleTicks, endedTicks,
          sinceStart, sessionTicks, flaps, earlyR, lossAt, burst, inputs>>

----------------------------------------------------------------------------
(* Bounds of the model.  Ticks of a Running run are not bounded: every run *)
(* ends by itself.  Inputs are enumerated at bounded places: a start click  *)
(* up to session tick MaxStartTick, a flap every FlapGrid ticks since start  *)
(* (and at the restart points of Ended), an R key every RestartGrid ticks of *)
(* Ended.  The first MaxBurstRuns runs may instead be played by a rapid      *)
(* tapper: a pointer-down every BurstGrid ticks up to tick BurstLen.         *)

MaxRuns == 3
MaxIdleTicks == 1
MaxEndedTicks == 20
RestartGrid == 10
MaxStartTick == 112
MaxFlaps == 2
FlapGrid == 24
MaxEarlyR == 1
BurstGrid == 8
BurstLen == 48
MaxBurstRuns == 1
MaxReplayTicks == 60    \* ticks followed after the game has ended, replay runs
MaxRngSteps == 20       \* steps followed from each sampled seed
EchoLag == 3            \* ticks between a pointer-down and the one that echoes it

----------------------------------------------------------------------------
(* Constants of the program *)

CANVAS_WIDTH == 600
CANVAS_HEIGHT == 400
BIRB_WIDTH == 42
BIRB_HEIGHT == 30
GRAVITY == 2000
FLAP_VELOCITY == -400
PIPE_WIDTH == 50
TICK_RATE_MS == 16
PIPE_SPEED == 250
INITIAL_LIVES == 3
HURT_COOLDOWN_MS == 600
FLAP_COOLDOWN_MS == 120
GROUND_MARGIN == 65

RBits == 8
VScale == 2 ^ (RBits - 1)
YScale == (VScale * 1000) \div 8

TOP == 0
GROUND == (CANVAS_HEIGHT - BIRB_HEIGHT - GROUND_MARGIN) * YScale
birdX == (CANVAS_WIDTH * 3) \div 10 - BIRB_WIDTH \div 2

Max2(a, b) == IF a >= b THEN a ELSE b
Min2(a, b) == IF a <= b THEN a ELSE b

----------------------------------------------------------------------------
(* The schedules handed to state$ (already parsed: time in ms, gap in px) *)

PipeDef(t, gy, gh) == [time |-> t, gapYpx |-> gy, gapHpx |-> gh]

Schedules ==
    { <<>>,
      << PipeDef(0, 200, 130), PipeDef(0, 200, 130) >>,
      << PipeDef(1000, 200, 130) >>,
      << PipeDef(0, 360, 30) >> }       \* row "0.9,0,0": top rectangle 0..345 px

----------------------------------------------------------------------------
(* RNG: (a*seed + c) >>> 0 on a seed kept as two 16-bit halves *)

Half == 2 ^ 16
SEED0 == [hi |-> 192, lo |-> 65518]           \* 0xc0ffee

\* mutant: the carry of the low half is not added to the high half
randStepNoCarry(sd) ==
    LET aHi == 25
        aLo == 26125
        cHi == 15470
        cLo == 62303
        low == aLo * sd.lo + cLo
        high == aHi * sd.lo + aLo * sd.hi + cHi
        next == [hi |-> high % Half, lo |-> low % Half]
    IN  [nextSeed |-> next, value |-> next.hi \div (2 ^ (16 - RBits))]

randStep(sd) ==
    LET aHi == 25                               \* 1664525 = 25*2^16 + 26125
        aLo == 26125
        cHi == 15470                            \* 1013904223 = 15470*2^16 + 62303
        cLo == 62303
        low == aLo * sd.lo + cLo
        high == aHi * sd.lo + aLo * sd.hi + cHi + (low \div Half)
        next == [hi |-> high % Half, lo |-> low % Half]
    IN  [nextSeed |-> next, value |-> next.hi \div (2 ^ (16 - RBits))]

----------------------------------------------------------------------------
(* State *)

initialState ==
    [ gameEnd |-> FALSE,
      birdY |-> (CANVAS_HEIGHT \div 2 - BIRB_HEIGHT \div 2) * YScale,
      birdVy |-> 0,
      pipes |-> <<>>,
      score |-> 0,
      lives |-> INITIAL_LIVES,
      elapsed |-> 0,
      remainingDefs |-> <<>>,
      scoredIds |-> <<>>,
      nextPipeId |-> 1,
      hurtCooldown |-> 0,
      flapCooldown |-> 0,
      started |-> FALSE,
      ghostYs |-> <<>> ]


\* mutant: the reset forgets to hand the schedule back
resetReducerBare(st) == initialState

\* mutant: the reset carries started over from the ended run
resetReducerKeepStarted(st) ==
    [initialState EXCEPT !.elapsed = 0, !.remainingDefs = pipeDefs,
                         !.ghostYs = <<>>, !.started = st.started]

resetReducer(st) ==
    [initialState EXCEPT !.elapsed = 0, !.remainingDefs = pipeDefs,
                         !.ghostYs = <<>>, !.started = FALSE]

startReducer(st) == [st EXCEPT !.started = TRUE]


\* mutant: the flap reducer without its gameEnd test
rawFlapNoEndTest(st) ==
    IF st.flapCooldown > 0
    THEN st
    ELSE [st EXCEPT !.birdVy = FLAP_VELOCITY * VScale,
                    !.flapCooldown = FLAP_COOLDOWN_MS]

\* mutant: the flap reducer without its cooldown test
rawFlapNoCooldown(st) ==
    IF st.gameEnd
    THEN st
    ELSE [st EXCEPT !.birdVy = FLAP_VELOCITY * VScale,
                    !.flapCooldown = FLAP_COOLDOWN_MS]

rawFlap(st) ==
    IF st.gameEnd \/ st.flapCooldown > 0
    THEN st
    ELSE [st EXCEPT !.birdVy = FLAP_VELOCITY * VScale,
                    !.flapCooldown = FLAP_COOLDOWN_MS]

----------------------------------------------------------------------------
(* stepReducer(dt, r): the physics reducer, state.ts 553-697 *)

overlaps(a, b) ==
    /\ a.x < b.x + b.w
    /\ a.x + a.w > b.x
    /\ a.y < b.y + b.h
    /\ a.y + a.h > b.y

bumpDown(r) == 150 * VScale + (r * 200 * VScale) \div (2 ^ RBits)
bumpUp(r) == 250 * VScale + (r * 170 * VScale) \div (2 ^ RBits)

\* mutant: the defs due on one tick get their ids in reverse order
spawnedPipesReversed(due, nextId) ==
    [i \in 1..Len(due) |->
        [id |-> nextId + (Len(due) - i), x |-> CANVAS_WIDTH,
         gapY |-> due[i].gapYpx, gapH |-> due[i].gapHpx]]

\* spawn: the due defs become pipes at the right edge, ids from nextId
spawnedPipes(due, nextId) ==
    [i \in 1..Len(due) |->
        [id |-> nextId + (i - 1), x |-> CANVAS_WIDTH,
         gapY |-> due[i].gapYpx, gapH |-> due[i].gapHpx]]

\* mutant: a pipe is taken out as soon as its left edge passes the screen edge
movedPipesCullAtLeftEdge(all, dt) ==
    LET moved == [i \in 1..Len(all) |->
                    [all[i] EXCEPT !.x = all[i].x - (PIPE_SPEED * dt) \div 1000]]
        onScreen(p) == p.x >= 0
    IN  SelectSeq(moved, onScreen)

\* concat(spawned).map(move).filter(on screen)
movedPipes(all, dt) ==
    LET moved == [i \in 1..Len(all) |->
                    [all[i] EXCEPT !.x = all[i].x - (PIPE_SPEED * dt) \div 1000]]
        onScreen(p) == p.x + PIPE_WIDTH >= 0
    IN  SelectSeq(moved, onScreen)

\* which rectangle of pipe p the bird box overlaps: "top", "bottom" or "none"
rectHit(p, birdBox) ==
    LET half == (p.gapH * YScale) \div 2
        topH == Max2(0, p.gapY * YScale - half)
        botY == Min2(CANVAS_HEIGHT * YScale, p.gapY * YScale + half)
        topR == [x |-> p.x, y |-> 0, w |-> PIPE_WIDTH, h |-> topH]
        botR == [x |-> p.x, y |-> botY, w |-> PIPE_WIDTH,
                 h |-> CANVAS_HEIGHT * YScale - botY]
    IN  IF overlaps(birdBox, topR) THEN "top"
        ELSE IF overlaps(birdBox, botR) THEN "bottom"
        ELSE "none"

\* mutant: the pipe loop is skipped when the bird was clamped to an edge
pipeHitOfSkipAtEdge(pipes, birdY1) ==
    LET birdBox == [x |-> birdX, y |-> birdY1, w |-> BIRB_WIDTH,
                    h |-> BIRB_HEIGHT * YScale]
        hits == {i \in 1..Len(pipes) : rectHit(pipes[i], birdBox) # "none"}
    IN  IF hits = {} \/ birdY1 <= TOP \/ birdY1 >= GROUND THEN "none"
        ELSE rectHit(pipes[CHOOSE i \in hits : \A j \in hits : i <= j], birdBox)

\* mutant: the last pipe with an overlapping rectangle decides
pipeHitOfLast(pipes, birdY1) ==
    LET birdBox == [x |-> birdX, y |-> birdY1, w |-> BIRB_WIDTH,
                    h |-> BIRB_HEIGHT * YScale]
        hits == {i \in 1..Len(pipes) : rectHit(pipes[i], birdBox) # "none"}
    IN  IF hits = {} THEN "none"
        ELSE rectHit(pipes[CHOOSE i \in hits : \A j \in hits : i >= j], birdBox)

\* the for loop over pipes: the first pipe with an overlapping rectangle decides
pipeHitOf(pipes, birdY1) ==
    LET birdBox == [x |-> birdX, y |-> birdY1, w |-> BIRB_WIDTH,
                    h |-> BIRB_HEIGHT * YScale]
        hits == {i \in 1..Len(pipes) : rectHit(pipes[i], birdBox) # "none"}
    IN  IF hits = {} THEN "none"
        ELSE rectHit(pipes[CHOOSE i \in hits : \A j \in hits : i <= j], birdBox)


\* mutant: a hit adds a life instead of taking one
livesAfterSignSlip(lives, hitThisFrame, hurtCooldown) ==
    IF hitThisFrame /\ hurtCooldown <= 0 THEN lives + 1 ELSE lives

\* mutant: every hit costs a life, the cooldown is not consulted
livesAfterEveryHit(lives, hitThisFrame, hurtCooldown) ==
    IF hitThisFrame THEN Max2(0, lives - 1) ELSE lives

livesAfter(lives, hitThisFrame, hurtCooldown) ==
    IF hitThisFrame /\ hurtCooldown <= 0 THEN Max2(0, lives - 1) ELSE lives


\* mutant: the invulnerability window is never opened
hurtAfterNoWindow(hitThisFrame, hurtCooldown, gameEnd) == hurtCooldown

\* mutant: the window is opened on the tick that ends the game too
hurtAfterAlways(hitThisFrame, hurtCooldown, gameEnd) ==
    IF hitThisFrame /\ hurtCooldown <= 0 THEN HURT_COOLDOWN_MS ELSE hurtCooldown

hurtAfter(hitThisFrame, hurtCooldown, gameEnd) ==
    IF hitThisFrame /\ hurtCooldown <= 0 /\ ~gameEnd
    THEN HURT_COOLDOWN_MS
    ELSE hurtCooldown


\* mutant: the run ends with one life left
endConditionOneLifeLeft(lives, future, pipes) ==
    lives <= 1 \/ (Len(future) = 0 /\ Len(pipes) = 0)

\* mutant: level completion is not detected
endConditionLivesOnly(lives, future, pipes) == lives <= 0

\* mutant: level completion looks at the live pipes only
endConditionNoFuture(lives, future, pipes) == lives <= 0 \/ Len(pipes) = 0

endCondition(lives, future, pipes) ==
    lives <= 0 \/ (Len(future) = 0 /\ Len(pipes) = 0)


\* mutant: the already-scored test is missing
newlyPassedAgain(pipes, scoredIds) ==
    LET birdRight == birdX + BIRB_WIDTH
        passed(p) == p.x + PIPE_WIDTH < birdRight
        sel == SelectSeq(pipes, passed)
    IN  [i \in 1..Len(sel) |-> sel[i].id]

\* mutant: a pipe is passed once its trailing edge is left of the bird's left edge
newlyPassedLeftEdge(pipes, scoredIds) ==
    LET seen == {scoredIds[k] : k \in 1..Len(scoredIds)}
        passed(p) == p.x + PIPE_WIDTH < birdX /\ p.id \notin seen
        sel == SelectSeq(pipes, passed)
    IN  [i \in 1..Len(sel) |-> sel[i].id]

\* mutant: a pipe counts once its trailing edge has left the screen
newlyPassedOffScreen(pipes, scoredIds) ==
    LET seen == {scoredIds[k] : k \in 1..Len(scoredIds)}
        passed(p) == p.x + PIPE_WIDTH < 0 /\ p.id \notin seen
        sel == SelectSeq(pipes, passed)
    IN  [i \in 1..Len(sel) |-> sel[i].id]

\* ids of the pipes whose trailing edge is left of the bird's right edge
newlyPassed(pipes, scoredIds) ==
    LET birdRight == birdX + BIRB_WIDTH
        seen == {scoredIds[k] : k \in 1..Len(scoredIds)}
        passed(p) == p.x + PIPE_WIDTH < birdRight /\ p.id \notin seen
        sel == SelectSeq(pipes, passed)
    IN  [i \in 1..Len(sel) |-> sel[i].id]



\* mutant: the test reads the elapsed of before the tick
dueAtStale(d, elapsed) == d.time <= elapsed - TICK_RATE_MS

\* partition(s.remainingDefs, d => d.time <= elapsed)
dueAt(d, elapsed) == d.time <= elapsed

\* mutant: the next id advances by one per tick, whatever was spawned
nextIdAfterOne(nextId, due) == nextId + 1

\* nextPipeId: s.nextPipeId + due.length
nextIdAfter(nextId, due) == nextId + Len(due)


\* mutant: the reducer has no pause, physics runs before the first click
pausedNever(st) == FALSE

\* pause until first click: if (!s.started) return s
paused(st) == ~st.started

\* mutant: gravity is a tenth of GRAVITY
gravityStepWeak(dt) == (GRAVITY * dt * VScale) \div 10000

\* GRAVITY * dt in velocity units
gravityStep(dt) == (GRAVITY * dt * VScale) \div 1000
\* vy*dt in height units: vy/VScale px/s * dt/1000 s * YScale
fallStep(vy, dt) == (vy * dt) \div ((1000 * VScale) \div YScale)


\* mutant: the clock of the run goes on after game end
endedStepClock(dt, st) ==
    LET vy == st.birdVy + gravityStep(dt)
    IN  [st EXCEPT !.birdVy = vy,
                   !.birdY = st.birdY + fallStep(vy, dt),
                   !.flapCooldown = 0,
                   !.elapsed = st.elapsed + dt]

\* mutant: the bird of an ended run stands still
endedStepFrozen(dt, st) == [st EXCEPT !.flapCooldown = 0]

\* keep falling after game end (no clamping)
endedStep(dt, st) ==
    LET vy == st.birdVy + gravityStep(dt)
    IN  [st EXCEPT !.birdVy = vy,
                   !.birdY = st.birdY + fallStep(vy, dt),
                   !.flapCooldown = 0]

\* mutant: the height is clamped at the ground only
clampYGroundOnly(y0) == IF y0 >= GROUND THEN GROUND ELSE y0

\* yClamped: y0 >= GROUND ? GROUND : y0 <= TOP ? TOP : y0
clampY(y0) == IF y0 >= GROUND THEN GROUND
              ELSE IF y0 <= TOP THEN TOP ELSE y0

stepReducer(dt, r, st) ==
    IF st.gameEnd
    THEN endedStep(dt, st)
    ELSE IF paused(st) THEN st
    ELSE
    LET elapsed == st.elapsed + dt
        hurtCooldown == Max2(0, st.hurtCooldown - dt)
        flapCooldown == Max2(0, st.flapCooldown - dt)
        isDue(d) == dueAt(d, elapsed)
        notDue(d) == ~dueAt(d, elapsed)
        due == SelectSeq(st.remainingDefs, isDue)
        future == SelectSeq(st.remainingDefs, notDue)
        pipes == movedPipes(st.pipes \o spawnedPipes(due, st.nextPipeId), dt)
        vy0 == st.birdVy + gravityStep(dt)
        y0 == st.birdY + fallStep(vy0, dt)
        yClamped == clampY(y0)
        vyClamped == IF y0 <= TOP \/ y0 >= GROUND THEN 0 ELSE vy0
        hitTop == yClamped <= TOP
        hitGround == yClamped >= GROUND
        birdVy1 == IF hitTop THEN bumpDown(r)
                   ELSE IF hitGround THEN -bumpUp(r) ELSE vyClamped
        birdY1 == IF hitGround THEN GROUND ELSE yClamped
        pipeHit == pipeHitOf(pipes, birdY1)
        birdVy2 == IF pipeHit = "top" THEN bumpDown(r)
                   ELSE IF pipeHit = "bottom" THEN -bumpUp(r) ELSE birdVy1
        hitThisFrame == hitTop \/ hitGround \/ pipeHit # "none"
        lives == livesAfter(st.lives, hitThisFrame, hurtCooldown)
        gameEnd == endCondition(lives, future, pipes)
        passedIds == newlyPassed(pipes, st.scoredIds)
    IN  [st EXCEPT !.elapsed = elapsed,
                   !.flapCooldown = flapCooldown,
                   !.remainingDefs = future,
                   !.pipes = pipes,
                   !.birdY = birdY1,
                   !.birdVy = birdVy2,
                   !.lives = lives,
                   !.score = st.score + Len(passedIds),
                   !.scoredIds = IF Len(passedIds) # 0
                                 THEN st.scoredIds \o passedIds
                                 ELSE st.scoredIds,
                   !.nextPipeId = nextIdAfter(st.nextPipeId, due),
                   !.hurtCooldown = hurtAfter(hitThisFrame, hurtCooldown, gameEnd),
                   !.gameEnd = gameEnd]


\* mutant: the ghost shows the sample of the tick before
ghostFrameLag(fr, idx) == fr[Max2(0, Min2(idx, Len(fr) - 1) - 1) + 1]

\* mutant: an exhausted recording starts over instead of holding its last sample
ghostFrameLoop(fr, idx) == fr[(idx % Len(fr)) + 1]

\* ghost frame: fr[Math.min(idx, fr.length - 1)], 0-based in the source
ghostFrame(fr, idx) == fr[Min2(idx, Len(fr) - 1) + 1]


\* mutant: exhausted recordings are dropped from ghostYs
ghostReducerDrop(st, frames, i) ==
    LET idx == Max2(0, i)
        alive(fr) == idx < Len(fr)
        left == SelectSeq(frames, alive)
    IN  [st EXCEPT !.ghostYs = [k \in 1..Len(left) |-> left[k][idx + 1]]]

\* mutant: the ghost runs one sample ahead of the tick count
ghostReducerAhead(st, frames, i) ==
    LET idx == Max2(0, i) + 1
    IN  [st EXCEPT !.ghostYs = [k \in 1..Len(frames) |-> ghostFrame(frames[k], idx)]]

ghostReducer(st, frames, i) ==
    LET idx == Max2(0, i)
    IN  [st EXCEPT !.ghostYs = [k \in 1..Len(frames) |-> ghostFrame(frames[k], idx)]]

----------------------------------------------------------------------------
(* The run: events folded by scan, one run after another (repeat) *)


\* mutant: the recorder reads the State of before the tick's physics step
recordSampleStale(buf, before, after) ==
    IF after.started THEN Append(buf, before.birdY) ELSE buf

\* mutant: the recorder stops at the tick that ends the game
recordSampleUntilEnd(buf, before, after) ==
    IF after.started /\ ~before.gameEnd THEN Append(buf, after.birdY) ELSE buf

\* mutant: the recorder drops every State that has gameEnd set
recordSampleAliveOnly(buf, before, after) ==
    IF after.started /\ ~after.gameEnd THEN Append(buf, after.birdY) ELSE buf

\* thisRunRecording$: each tick samples the latest State of runBase$, which
\* is the State this tick's physics step has just produced
recordSample(buf, before, after) ==
    IF after.started THEN Append(buf, after.birdY) ELSE buf


\* mutant: only the previous run's recording is kept
finalizeRunKeepLast(catalog, frames) == <<frames>>

\* mutant: the recording is put in front of the catalog
finalizeRunPrepend(catalog, frames) == <<frames>> \o catalog

\* finalize: append the frozen recording to the catalog
finalizeRun(catalog, frames) == Append(catalog, frames)


\* mutant: restartKey$ ends the run without waiting for gameOver$
restartAnyTime == TRUE

\* gameOver$ / endOnRestartAfterOver$: R ends the run only once gameOver$ fired
restartHonoured == armed

\* the inputs of a run: the ticks it received before its start click, and for
\* each pointer-down that the flap reducer acted on the ticks since start it
\* came after (a pointer-down the reducer ignores leaves no trace in any State)
NoInputs == [idle |-> 0, taps |-> {}]

idled == [inputs EXCEPT ![Len(inputs)].idle = @ + 1]
tapped ==
    IF rawFlap(s) = s
    THEN inputs
    ELSE [inputs EXCEPT ![Len(inputs)].taps = @ \cup {sinceStart}]

Init ==
    /\ pipeDefs \in Schedules
    /\ s = [initialState EXCEPT !.remainingDefs = pipeDefs]
    /\ ghostFramesAll = <<>>
    /\ seed = SEED0
    /\ clicked = FALSE
    /\ armed = FALSE
    /\ framesList = <<>>
    /\ ghostOn = FALSE
    /\ ghostIdx = -1
    /\ rec = <<>>
    /\ pc = "ready"
    /\ runs = 0
    /\ idleTicks = 0
    /\ endedTicks = 0
    /\ sinceStart = 0
    /\ sessionTicks = 0
    /\ flaps = 0
    /\ earlyR = 0
    /\ lossAt = -1
    /\ burst = FALSE
    /\ inputs = << NoInputs >>

\* the first pointer-down of the run: startReducer$, and the ghost snapshot
Start ==
    /\ pc = "ready"
    /\ ~clicked
    /\ runs < MaxRuns
    /\ sessionTicks <= MaxStartTick
    /\ clicked' = TRUE
    /\ s' = startReducer(s)
    /\ framesList' = ghostFramesAll
    /\ ghostOn' = (Len(ghostFramesAll) # 0)
    /\ ghostIdx' = -1
    /\ burst' \in (IF runs < MaxBurstRuns THEN BOOLEAN ELSE {FALSE})
    /\ UNCHANGED <<ghostFramesAll, pipeDefs, seed, armed, rec, pc, runs,
                   idleTicks, endedTicks, sinceStart, sessionTicks, flaps,
                   earlyR, lossAt, inputs>>

\* a later pointer-down of the run: flapForRun$
Flap ==
    /\ pc = "ready"
    /\ clicked
    /\ ~burst
    /\ flaps < MaxFlaps
    /\ sinceStart % FlapGrid = 0 \/ (s.gameEnd /\ endedTicks % RestartGrid = 0)
    /\ flaps' = flaps + 1
    /\ s' = rawFlap(s)
    /\ inputs' = tapped
    /\ UNCHANGED <<ghostFramesAll, pipeDefs, seed, clicked, armed, framesList,
                   ghostOn, ghostIdx, rec, pc, runs, idleTicks, endedTicks,
                   sinceStart, sessionTicks, earlyR, lossAt, burst>>

\* a rapid tapper: a pointer-down every BurstGrid ticks, from the start click
\* up to tick BurstLen of the run
burstDue ==
    /\ burst
    /\ ~s.gameEnd
    /\ s.flapCooldown = 0
    /\ sinceStart % BurstGrid = 0
    /\ sinceStart <= BurstLen

FlapBurst ==
    /\ pc = "ready"
    /\ burstDue
    /\ s' = rawFlap(s)
    /\ inputs' = tapped
    /\ UNCHANGED <<ghostFramesAll, pipeDefs, seed, clicked, armed, framesList,
                   ghostOn, ghostIdx, rec, pc, runs, idleTicks, endedTicks,
                   sinceStart, sessionTicks, flaps, earlyR, lossAt, burst>>

\* one emission of dtForRun$: RNG, then the physics reducer, then the recorder;
\* maxEnded bounds the ticks the model follows after the game has ended
TickWithin(maxEnded) ==
    /\ pc = "ready"
    /\ ~burstDue
    /\ ~s.started => idleTicks < MaxIdleTicks
    /\ s.gameEnd => endedTicks < maxEnded
    /\ LET sd == randStep(seed).nextSeed
           r == randStep(sd).value
           st == stepReducer(TICK_RATE_MS, r, s)
       IN  /\ seed' = sd
           /\ s' = st
           /\ armed' = (armed \/ st.gameEnd)
           /\ rec' = recordSample(rec, s, st)
           /\ lossAt' = IF st.lives < s.lives THEN st.elapsed ELSE lossAt
    /\ idleTicks' = IF s.started THEN idleTicks ELSE idleTicks + 1
    /\ endedTicks' = IF s.gameEnd THEN endedTicks + 1 ELSE endedTicks
    /\ sinceStart' = IF s.started THEN sinceStart + 1 ELSE sinceStart
    /\ sessionTicks' = sessionTicks + 1
    /\ pc' = IF ghostOn THEN "ghost" ELSE "ready"
    /\ inputs' = IF s.started THEN inputs ELSE idled
    /\ UNCHANGED <<ghostFramesAll, pipeDefs, clicked, framesList, ghostOn,
                   ghostIdx, runs, flaps, earlyR, burst>>

Tick == TickWithin(MaxEndedTicks)

\* mutant: one emission folds the ghost reducer twice
GhostUpdateTwice ==
    /\ pc = "ghost"
    /\ ghostIdx' = ghostIdx + 2
    /\ s' = ghostReducer(ghostReducer(s, framesList, ghostIdx + 1),
                         framesList, ghostIdx + 2)
    /\ pc' = "ready"
    /\ UNCHANGED <<ghostFramesAll, pipeDefs, seed, clicked, armed, framesList,
                   ghostOn, rec, runs, idleTicks, endedTicks, sinceStart,
                   sessionTicks, flaps, earlyR, lossAt, burst, inputs>>

\* the same emission reaching idx$: the ghost reducer of this tick
GhostUpdate ==
    /\ pc = "ghost"
    /\ ghostIdx' = ghostIdx + 1
    /\ s' = ghostReducer(s, framesList, ghostIdx + 1)
    /\ pc' = "ready"
    /\ UNCHANGED <<ghostFramesAll, pipeDefs, seed, clicked, armed, framesList,
                   ghostOn, rec, runs, idleTicks, endedTicks, sinceStart,
                   sessionTicks, flaps, earlyR, lossAt, burst, inputs>>

\* mutant: the generator of the ended run goes on into the next run
RestartWhenKeepSeed(pressed) ==
    /\ pc = "ready"
    /\ restartHonoured
    /\ pressed
    /\ ghostFramesAll' = finalizeRun(ghostFramesAll, rec)
    /\ s' = resetReducer(s)
    /\ clicked' = FALSE
    /\ armed' = FALSE
    /\ framesList' = <<>>
    /\ ghostOn' = FALSE
    /\ ghostIdx' = -1
    /\ rec' = <<>>
    /\ runs' = runs + 1
    /\ idleTicks' = 0
    /\ endedTicks' = 0
    /\ sinceStart' = 0
    /\ lossAt' = -1
    /\ burst' = FALSE
    /\ inputs' = Append(inputs, NoInputs)
    /\ UNCHANGED <<pipeDefs, seed, pc, sessionTicks, flaps, earlyR>>

\* an R key-down that ends the run: finalize, then repeat() builds the next run;
\* pressed says at which moments of the Ended phase the model presses the key
RestartWhen(pressed) ==
    /\ pc = "ready"
    /\ restartHonoured
    /\ pressed
    /\ ghostFramesAll' = finalizeRun(ghostFramesAll, rec)
    /\ s' = resetReducer(s)
    /\ seed' = SEED0
    /\ clicked' = FALSE
    /\ armed' = FALSE
    /\ framesList' = <<>>
    /\ ghostOn' = FALSE
    /\ ghostIdx' = -1
    /\ rec' = <<>>
    /\ runs' = runs + 1
    /\ idleTicks' = 0
    /\ endedTicks' = 0
    /\ sinceStart' = 0
    /\ lossAt' = -1
    /\ burst' = FALSE
    /\ inputs' = Append(inputs, NoInputs)
    /\ UNCHANGED <<pipeDefs, pc, sessionTicks, flaps, earlyR>>

Restart == RestartWhen(endedTicks % RestartGrid = 0)

\* an R key-down while restartKey$ has no subscriber: nothing listens
RestartIgnored ==
    /\ pc = "ready"
    /\ ~restartHonoured
    /\ earlyR < MaxEarlyR
    /\ earlyR' = earlyR + 1
    /\ UNCHANGED <<s, ghostFramesAll, pipeDefs, seed, clicked, armed,
                   framesList, ghostOn, ghostIdx, rec, pc, runs, idleTicks,
                   endedTicks, sinceStart, sessionTicks, flaps, lossAt, burst,
                   inputs>>

Next ==
    \/ Start
    \/ Flap
    \/ FlapBurst
    \/ Tick
    \/ GhostUpdate
    \/ Restart
    \/ RestartIgnored

Spec == Init /\ [][Next]_vars

----------------------------------------------------------------------------
(* One run under a ticking clock.  interval(TICK_RATE_MS) fires for as long *)
(* as the run is subscribed, so the tick is weakly fair; the rapid tapper's  *)
(* tap is ordered before the tick it precedes, so it is weakly fair too.     *)
(* Fairness is stated on Clock and Tap: Clock is the guard of Tick with its  *)
(* effect on the tick counter, Tap is FlapBurst's guard with its effect on   *)
(* State.  Only a Tick step changes sessionTicks, and where burstDue holds   *)
(* only a FlapBurst step changes s, so WF_sessionTicks(Clock) and WF_s(Tap)  *)
(* are WF_vars(Tick) and WF_vars(FlapBurst); TLC evaluates them without      *)
(* computing the physics step a second time.                                 *)
(* The schedules add one with two different defs due on the first tick and   *)
(* a third that falls due after a bird that never flaps has lost its last    *)
(* life, and one whose low-gap pipe reaches a bird that never flaps when it  *)
(* is in the air with one life left and no cooldown. Two more put several    *)
(* rectangles on the bird at once: two pipes of one tick whose bottom and    *)
(* top rectangles share a band of heights, and a pipe whose gap is lower     *)
(* than the bird box.                                                        *)

LateSchedules ==
    Schedules \cup { << PipeDef(0, 200, 130), PipeDef(0, 240, 130),
                         PipeDef(1990, 200, 130) >>,
                      << PipeDef(40, 360, 30) >>,
                      << PipeDef(0, 100, 130), PipeDef(0, 360, 30) >>,
                      << PipeDef(0, 250, 10) >> }

LiveInit ==
    /\ pipeDefs \in LateSchedules
    /\ s = [initialState EXCEPT !.remainingDefs = pipeDefs]
    /\ ghostFramesAll = <<>>
    /\ seed = SEED0
    /\ clicked = FALSE
    /\ armed = FALSE
    /\ framesList = <<>>
    /\ ghostOn = FALSE
    /\ ghostIdx = -1
    /\ rec = <<>>
    /\ pc = "ready"
    /\ runs = 0
    /\ idleTicks = 0
    /\ endedTicks = 0
    /\ sinceStart = 0
    /\ sessionTicks = 0
    /\ flaps = 0
    /\ earlyR = 0
    /\ lossAt = -1
    /\ burst = FALSE
    /\ inputs = << NoInputs >>

Clock ==
    /\ pc = "ready"
    /\ ~burstDue
    /\ ~s.started => idleTicks < MaxIdleTicks
    /\ s.gameEnd => endedTicks < MaxEndedTicks
    /\ sessionTicks' = sessionTicks + 1

Tap ==
    /\ pc = "ready"
    /\ burstDue
    /\ s' = rawFlap(s)

\* a pointer-down EchoLag ticks after a moment at which the player may flap,
\* such as the mousedown that follows a touchstart: flapForRun$ again
FlapEcho ==
    /\ pc = "ready"
    /\ clicked
    /\ ~burst
    /\ flaps < MaxFlaps
    /\ sinceStart % FlapGrid = EchoLag
    /\ flaps' = flaps + 1
    /\ s' = rawFlap(s)
    /\ inputs' = tapped
    /\ UNCHANGED <<ghostFramesAll, pipeDefs, seed, clicked, armed, framesList,
                   ghostOn, ghostIdx, rec, pc, runs, idleTicks, endedTicks,
                   sinceStart, sessionTicks, earlyR, lossAt, burst>>

LiveNext ==
    \/ Start
    \/ Flap
    \/ FlapEcho
    \/ FlapBurst
    \/ Tick

LiveSpec ==
    /\ LiveInit
    /\ [][LiveNext]_vars
    /\ WF_sessionTicks(Clock)
    /\ WF_s(Tap)

(* Replay of a recording of ScenarioLen samples: the runs of Spec, followed  *)
(* further into the Ended phase, with the restart key pressed when the       *)
(* recorder holds ScenarioLen samples.                                       *)
ScenarioLen == 50

ReplayTick == TickWithin(MaxReplayTicks)

ReplayRestart == RestartWhen(Len(rec) = ScenarioLen)

ReplayNext ==
    \/ Start
    \/ Flap
    \/ FlapBurst
    \/ ReplayTick
    \/ GhostUpdate
    \/ ReplayRestart
    \/ RestartIgnored

ReplaySpec == Init /\ [][ReplayNext]_vars

(* The generator alone: randStep applied, step after step, to seeds sampled  *)
(* over the unsigned 32-bit range, the two ends of the range included.       *)
SeedHalves == {0, 1, 192, 32768, 65518, 65535}

RngInit ==
    /\ pipeDefs = <<>>
    /\ s = [initialState EXCEPT !.remainingDefs = pipeDefs]
    /\ ghostFramesAll = <<>>
    /\ seed \in {[hi |-> h, lo |-> l] : h \in SeedHalves, l \in SeedHalves}
    /\ clicked = FALSE
    /\ armed = FALSE
    /\ framesList = <<>>
    /\ ghostOn = FALSE
    /\ ghostIdx = -1
    /\ rec = <<>>
    /\ pc = "ready"
    /\ runs = 0
    /\ idleTicks = 0
    /\ endedTicks = 0
    /\ sinceStart = 0
    /\ sessionTicks = 0
    /\ flaps = 0
    /\ earlyR = 0
    /\ lossAt = -1
    /\ burst = FALSE
    /\ inputs = << NoInputs >>

\* scan(seed => randStep(seed).nextSeed)
RngStep ==
    /\ sessionTicks < MaxRngSteps
    /\ seed' = randStep(seed).nextSeed
    /\ sessionTicks' = sessionTicks + 1
    /\ UNCHANGED <<s, ghostFramesAll, pipeDefs, clicked, armed, framesList,
                   ghostOn, ghostIdx, rec, pc, runs, idleTicks, endedTicks,
                   sinceStart, flaps, earlyR, lossAt, burst, inputs>>

RngSpec == RngInit /\ [][RngStep]_vars

----------------------------------------------------------------------------
(* The earlier engines: src/src/main.ts and src/unnamed/part_002.  Both keep  *)
(* no id counter: a spawned pipe is numbered from the count of live pipes.    *)
(* Here pc names the program whose state$ is running, clicked says that its   *)
(* ticks are running, and burst that the player taps steadily.                *)

MaxVariantTicks == 360  \* ticks followed in one run of an earlier engine
MainFlapGrid == 32      \* ticks between the taps of a steady player, main.ts
MaxVariantRuns == 1     \* restarts followed, part_002

\* pipe abscissas in 1/XScale px: PIPE_SPEED * dt is 3.2 px in main.ts
XScale == 5

\* what differs between the two programs
MainTs ==
    [ FLAP_VELOCITY |-> -520, PIPE_SPEED |-> 200, gated |-> FALSE,
      flapGrid |-> MainFlapGrid ]
Part002 ==
    [ FLAP_VELOCITY |-> -400, PIPE_SPEED |-> 250, gated |-> TRUE,
      flapGrid |-> FlapGrid ]
program == IF pc = "main.ts" THEN MainTs ELSE Part002

\* {...initialState, elapsed: 0, remainingDefs: pipeDefs} (part_002 has one
\* more field, started, which nothing writes or reads)
seededInitial ==
    [ gameEnd |-> FALSE,
      birdY |-> (CANVAS_HEIGHT \div 2 - BIRB_HEIGHT \div 2) * YScale,
      birdVy |-> 0,
      pipes |-> <<>>,
      score |-> 0,
      lives |-> INITIAL_LIVES,
      elapsed |-> 0,
      remainingDefs |-> pipeDefs,
      scoredIds |-> <<>>,
      hurtCooldown |-> 0,
      flapCooldown |-> 0 ]

\* flap$ / rawFlap$
flapReducer(prog, st) ==
    IF st.gameEnd \/ st.flapCooldown > 0
    THEN st
    ELSE [st EXCEPT !.birdVy = prog.FLAP_VELOCITY * VScale,
                    !.flapCooldown = FLAP_COOLDOWN_MS]

\* due.map((d, i) => ({ id: s.pipes.length + i + 1, x: CANVAS_WIDTH, ... }))
spawned(due, pipes) ==
    [i \in 1..Len(due) |->
        [id |-> Len(pipes) + (i - 1) + 1, x |-> CANVAS_WIDTH * XScale,
         gapY |-> due[i].gapYpx, gapH |-> due[i].gapHpx]]

\* .map(p => ({...p, x: p.x - PIPE_SPEED * dt})).filter(p => p.x + PIPE_WIDTH >= 0)
movedAt(prog, all, dt) ==
    LET moved == [i \in 1..Len(all) |->
                    [all[i] EXCEPT
                        !.x = all[i].x - (prog.PIPE_SPEED * dt * XScale) \div 1000]]
        onScreen(p) == p.x + PIPE_WIDTH * XScale >= 0
    IN  SelectSeq(moved, onScreen)

\* the rectangle of pipe p that the bird box overlaps, top tested first
rectOverlapped(p, birdBox) ==
    LET half == (p.gapH * YScale) \div 2
        topH == Max2(0, p.gapY * YScale - half)
        botY == Min2(CANVAS_HEIGHT * YScale, p.gapY * YScale + half)
        topRect == [x |-> p.x, y |-> 0, w |-> PIPE_WIDTH * XScale, h |-> topH]
        botRect == [x |-> p.x, y |-> botY, w |-> PIPE_WIDTH * XScale,
                    h |-> CANVAS_HEIGHT * YScale - botY]
    IN  IF overlaps(birdBox, topRect) THEN "top"
        ELSE IF overlaps(birdBox, botRect) THEN "bottom"
        ELSE "none"

\* for (const p of pipes) { ... break; }: the first overlapping pipe decides
firstOverlapped(pipes, birdY) ==
    LET birdBox == [x |-> birdX * XScale, y |-> birdY,
                    w |-> BIRB_WIDTH * XScale, h |-> BIRB_HEIGHT * YScale]
        hits == {i \in 1..Len(pipes) : rectOverlapped(pipes[i], birdBox) # "none"}
    IN  IF hits = {} THEN "none"
        ELSE rectOverlapped(pipes[CHOOSE i \in hits : \A j \in hits : i <= j],
                            birdBox)

\* the ids of the pipes whose right edge is behind the bird's right edge and
\* whose id is not in scoredIds
passedIdsOf(pipes, scoredIds) ==
    LET seen == {scoredIds[k] : k \in 1..Len(scoredIds)}
        passed(p) == /\ p.x + PIPE_WIDTH * XScale < (birdX + BIRB_WIDTH) * XScale
                     /\ p.id \notin seen
        sel == SelectSeq(pipes, passed)
    IN  [i \in 1..Len(sel) |-> sel[i].id]

\* the tick reducer (tick$ in main.ts, tickCore$ in part_002)
tickCore(prog, dt, r, st) ==
    IF st.gameEnd
    THEN LET vy == st.birdVy + gravityStep(dt)
         IN  [st EXCEPT !.birdVy = vy,
                        !.birdY = st.birdY + fallStep(vy, dt),
                        !.flapCooldown = 0]
    ELSE
    LET elapsed == st.elapsed + dt
        hurtCooldown == Max2(0, st.hurtCooldown - dt)
        flapCooldown == Max2(0, st.flapCooldown - dt)
        isDue(d) == d.time <= elapsed
        notDue(d) == ~(d.time <= elapsed)
        due == SelectSeq(st.remainingDefs, isDue)
        future == SelectSeq(st.remainingDefs, notDue)
        pipes == movedAt(prog, st.pipes \o spawned(due, st.pipes), dt)
        vyFall == st.birdVy + gravityStep(dt)
        yFall == st.birdY + fallStep(vyFall, dt)
        atGround == yFall >= GROUND
        atTop == (IF atGround THEN GROUND ELSE yFall) <= TOP
        birdY == IF atGround THEN GROUND ELSE IF atTop THEN TOP ELSE yFall
        vyEdge == IF atGround THEN -bumpUp(r)
                  ELSE IF atTop THEN bumpDown(r) ELSE vyFall
        pipeHit == firstOverlapped(pipes, birdY)
        birdVy == IF pipeHit = "top" THEN bumpDown(r)
                  ELSE IF pipeHit = "bottom" THEN -bumpUp(r) ELSE vyEdge
        hit == atGround \/ atTop \/ pipeHit # "none"
        lives == IF hit /\ hurtCooldown <= 0 THEN Max2(0, st.lives - 1)
                 ELSE st.lives
        gameEnd == lives <= 0
        passedIds == passedIdsOf(pipes, st.scoredIds)
    IN  [st EXCEPT !.elapsed = elapsed,
                   !.flapCooldown = flapCooldown,
                   !.remainingDefs = future,
                   !.pipes = pipes,
                   !.birdY = birdY,
                   !.birdVy = birdVy,
                   !.lives = lives,
                   !.score = st.score + Len(passedIds),
                   !.scoredIds = IF Len(passedIds) # 0
                                 THEN st.scoredIds \o passedIds
                                 ELSE st.scoredIds,
                   !.hurtCooldown = IF hit /\ hurtCooldown <= 0 /\ ~gameEnd
                                    THEN HURT_COOLDOWN_MS ELSE hurtCooldown,
                   !.gameEnd = gameEnd]

\* gaps of 400 px leave no rectangle to hit; no time is a multiple of 16 ms
VariantSchedules ==
    { <<>>,
      << PipeDef(0, 200, 130), PipeDef(0, 200, 130) >>,
      << PipeDef(0, 200, 400), PipeDef(3300, 200, 400) >>,
      << PipeDef(0, 200, 400), PipeDef(1000, 200, 400),
         PipeDef(3300, 200, 400) >> }

VariantInit ==
    /\ pc \in {"main.ts", "part_002"}
    /\ pipeDefs \in VariantSchedules
    /\ s = seededInitial
    /\ seed = SEED0
    /\ clicked = (pc = "main.ts")
    /\ burst \in BOOLEAN
    /\ ghostFramesAll = <<>>
    /\ armed = FALSE
    /\ framesList = <<>>
    /\ ghostOn = FALSE
    /\ ghostIdx = -1
    /\ rec = <<>>
    /\ runs = 0
    /\ idleTicks = 0
    /\ endedTicks = 0
    /\ sinceStart = 0
    /\ sessionTicks = 0
    /\ flaps = 0
    /\ earlyR = 0
    /\ lossAt = -1
    /\ inputs = << NoInputs >>

\* the steady player's next pointer-down is due before the next tick
tapDue ==
    /\ clicked
    /\ burst
    /\ ~s.gameEnd
    /\ sinceStart % program.flapGrid = 0
    /\ flaps = sinceStart \div program.flapGrid

\* part_002: firstClick$ lets the ticks and the flaps of the run in
FirstClick ==
    /\ program.gated
    /\ ~clicked
    /\ clicked' = TRUE
    /\ UNCHANGED <<s, ghostFramesAll, pipeDefs, seed, armed, framesList,
                   ghostOn, ghostIdx, rec, pc, runs, idleTicks, endedTicks,
                   sinceStart, sessionTicks, flaps, earlyR, lossAt, burst,
                   inputs>>

\* a pointer-down of the steady player
VariantFlap ==
    /\ tapDue
    /\ s' = flapReducer(program, s)
    /\ flaps' = flaps + 1
    /\ UNCHANGED <<ghostFramesAll, pipeDefs, seed, clicked, armed, framesList,
                   ghostOn, ghostIdx, rec, pc, runs, idleTicks, endedTicks,
                   sinceStart, sessionTicks, earlyR, lossAt, burst, inputs>>

\* the player stops tapping
VariantRest ==
    /\ tapDue
    /\ burst' = FALSE
    /\ UNCHANGED <<s, ghostFramesAll, pipeDefs, seed, clicked, armed,
                   framesList, ghostOn, ghostIdx, rec, pc, runs, idleTicks,
                   endedTicks, sinceStart, sessionTicks, flaps, earlyR, lossAt,
                   inputs>>

\* one emission of dt$: random$ first, then the tick reducer.  In part_002
\* takeWhile(s => !s.gameEnd, true) ends the run with the first Ended state.
VariantTick ==
    /\ clicked
    /\ ~tapDue
    /\ sinceStart < MaxVariantTicks
    /\ s.gameEnd => ~program.gated /\ endedTicks < MaxEndedTicks
    /\ LET sd == randStep(seed).nextSeed
           r == randStep(sd).value
       IN  /\ seed' = sd
           /\ s' = tickCore(program, TICK_RATE_MS, r, s)
    /\ endedTicks' = IF s.gameEnd THEN endedTicks + 1 ELSE endedTicks
    /\ sinceStart' = sinceStart + 1
    /\ sessionTicks' = sessionTicks + 1
    /\ UNCHANGED <<ghostFramesAll, pipeDefs, clicked, armed, framesList,
                   ghostOn, ghostIdx, rec, pc, runs, idleTicks, flaps, earlyR,
                   lossAt, burst, inputs>>

\* part_002: repeat({delay: () => restartKey$}), a fresh run on R after the end
VariantRestart ==
    /\ program.gated
    /\ s.gameEnd
    /\ runs < MaxVariantRuns
    /\ s' = seededInitial
    /\ seed' = SEED0
    /\ clicked' = FALSE
    /\ burst' \in BOOLEAN
    /\ runs' = runs + 1
    /\ sinceStart' = 0
    /\ flaps' = 0
    /\ UNCHANGED <<ghostFramesAll, pipeDefs, armed, framesList, ghostOn,
                   ghostIdx, rec, pc, idleTicks, endedTicks, sessionTicks,
                   earlyR, lossAt, inputs>>

VariantNext ==
    \/ FirstClick
    \/ VariantFlap
    \/ VariantRest
    \/ VariantTick
    \/ VariantRestart

VariantSpec == VariantInit /\ [][VariantNext]_vars

----------------------------------------------------------------------------
(* Properties *)

scoredSet == {s.scoredIds[k] : k \in 1..Len(s.scoredIds)}
birdRight == birdX + BIRB_WIDTH
tickTaken == sessionTicks' # sessionTicks
sameRun == runs' = runs

\* C1: within a run, a tick that takes a life comes at least 0.6 s of run time
\* (HURT_COOLDOWN_MS of elapsed) after the previous life-taking tick of that
\* run, whatever hits happen in between.
C1_OneLossPerWindow ==
    [][ (s'.lives < s.lives /\ lossAt # -1)
            => s'.elapsed - lossAt >= HURT_COOLDOWN_MS ]_vars

\* C1 witness: a second ground hit inside the window of the first loss has
\* left lives at INITIAL_LIVES - 1.
C1_Witness ==
    /\ lossAt # -1
    /\ s.elapsed > lossAt
    /\ s.elapsed - lossAt < HURT_COOLDOWN_MS
    /\ s.birdY = GROUND
    /\ s.birdVy < 0
    /\ s.lives = INITIAL_LIVES - 1
    /\ ~s.gameEnd

\* C2: scoredIds holds no id twice, score is the number of scored ids, and a
\* live pipe is in scoredIds exactly when its trailing edge is left of the
\* bird's right edge (so it was added on the first tick that saw it there).
C2_ScoreOncePerId ==
    /\ Cardinality(scoredSet) = Len(s.scoredIds)
    /\ s.score = Len(s.scoredIds)
    /\ \A i \in 1..Len(s.pipes) :
          (s.pipes[i].x + PIPE_WIDTH < birdRight) <=> (s.pipes[i].id \in scoredSet)

\* C2 witness: two pipes were scored and stayed on screen for later ticks.
C2_Witness ==
    /\ s.score = 2
    /\ Len(s.pipes) = 2
    /\ \A i \in 1..Len(s.pipes) : s.pipes[i].x + PIPE_WIDTH < birdRight - 40

\* C3: an R key-down that arrives before the game is over changes neither the
\* State nor the catalog nor whether restart is listened for, and a run is
\* ended (runs grows) only from a state with gameEnd true.
C3_RestartOnlyWhenEnded ==
    [][ /\ (earlyR' # earlyR) =>
              /\ s' = s
              /\ ghostFramesAll' = ghostFramesAll
              /\ armed' = armed
              /\ runs' = runs
        /\ (runs' # runs) => s.gameEnd ]_vars

\* C3 witness: R was pressed before the first run was over, the run then ended
\* and is still waiting in Ended.
C3_Witness ==
    /\ earlyR = 1
    /\ runs = 0
    /\ s.gameEnd
    /\ endedTicks >= 1

\* C4: after the i-th tick since start (i = sinceStart - 1) and its ghost
\* update, ghostYs[k] is sample min(i, len - 1) of the k-th recording of the
\* snapshot.
C4_GhostPlayback ==
    (pc = "ready" /\ clicked /\ ghostOn /\ sinceStart >= 1) =>
        /\ Len(s.ghostYs) = Len(framesList)
        /\ \A k \in 1..Len(framesList) :
              LET i == sinceStart - 1
                  L == Len(framesList[k])
              IN  s.ghostYs[k] = framesList[k][(IF i < L THEN i ELSE L - 1) + 1]

\* C4 witness: two ghosts of different lengths, the shorter one exhausted and
\* the longer one still playing.
C4_Witness ==
    /\ pc = "ready"
    /\ Len(framesList) = 2
    /\ sinceStart >= 2
    /\ \E k \in 1..2 : sinceStart - 1 >= Len(framesList[k])
    /\ \E k \in 1..2 : sinceStart - 1 < Len(framesList[k]) - 1

\* C5: the catalog changes only when a run is finalized, from Ended; each
\* finalization appends exactly one recording and leaves the earlier ones in
\* place.
C5_CatalogAppendOnly ==
    [][ /\ (ghostFramesAll' # ghostFramesAll \/ runs' # runs) =>
              /\ s.gameEnd
              /\ runs' = runs + 1
              /\ Len(ghostFramesAll') = Len(ghostFramesAll) + 1
              /\ SubSeq(ghostFramesAll', 1, Len(ghostFramesAll)) = ghostFramesAll
              /\ ghostFramesAll'[Len(ghostFramesAll')] = rec ]_vars

\* C5 witness: a third run is finalized on top of two recordings.
C5_Witness ==
    /\ Len(ghostFramesAll) = 3
    /\ Len(ghostFramesAll[1]) # Len(ghostFramesAll[2])

\* C6 as stated: in every state from the start click to the reset, ghostYs has
\* as many entries as the snapshot.
C6_Original ==
    clicked => Len(s.ghostYs) = Len(framesList)

\* C6 amended: from the run's first ghost update to the reset, ghostYs has as
\* many entries as the snapshot; before that update ghostYs is empty, and with
\* an empty snapshot it stays empty for the whole run.
C6_GhostCount ==
    /\ clicked =>
          Len(s.ghostYs) = (IF ghostIdx >= 0 THEN Len(framesList) ELSE 0)
    /\ (clicked /\ Len(framesList) = 0) => ghostIdx = -1

\* C6 witness: two ghosts shown, one of them past the end of its recording.
C6_Witness ==
    /\ clicked
    /\ ghostIdx >= 0
    /\ Len(framesList) = 2
    /\ Len(s.ghostYs) = 2
    /\ \E k \in 1..2 : ghostIdx >= Len(framesList[k])

\* C8: in Ended a tick changes birdVy by gravity and birdY by the new velocity,
\* without clamping, sets flapCooldown to 0 and leaves every other field; a
\* flap leaves the State as it is; the frozen fields change only by restart.
C8_EndedFrame ==
    [][ (s.gameEnd /\ sameRun) =>
          /\ s'.score = s.score /\ s'.lives = s.lives /\ s'.pipes = s.pipes
          /\ s'.remainingDefs = s.remainingDefs /\ s'.scoredIds = s.scoredIds
          /\ s'.nextPipeId = s.nextPipeId /\ s'.elapsed = s.elapsed
          /\ s'.hurtCooldown = s.hurtCooldown /\ s'.gameEnd /\ s'.started
          /\ tickTaken =>
                /\ s'.birdVy = s.birdVy + (GRAVITY * TICK_RATE_MS * VScale) \div 1000
                /\ s'.birdY = s.birdY + (s'.birdVy * TICK_RATE_MS) \div 8
                /\ s'.flapCooldown = 0
                /\ s'.ghostYs = s.ghostYs
          /\ (flaps' # flaps) => s' = s ]_vars

\* C8 witness: a flap and two ticks were taken in Ended; the bird is below the
\* ground line.
C8_Witness ==
    /\ s.gameEnd
    /\ endedTicks >= 2
    /\ flaps >= 1
    /\ s.birdY > GROUND
    /\ s.birdVy > 0

noneLeft == Len(s.remainingDefs) = 0 /\ Len(s.pipes) = 0

\* C9 as stated: gameEnd turns true only on a tick taken in Running, gameEnd
\* implies no life or nothing left, and every state a tick produces with
\* gameEnd false has a life and a def or pipe left.
C9_Original ==
    [][ /\ (~s.gameEnd /\ s'.gameEnd) => (tickTaken /\ s.started)
        /\ s'.gameEnd => (s'.lives = 0 \/ noneLeft')
        /\ (tickTaken /\ ~s'.gameEnd) => (s'.lives >= 1 /\ ~noneLeft') ]_vars

\* C9 amended: the same, the last part for every state a tick taken in Running
\* produces (a tick in Idle leaves an empty schedule's State with nothing
\* left and gameEnd false).
C9_GameEnd ==
    [][ /\ (~s.gameEnd /\ s'.gameEnd) => (tickTaken /\ s.started)
        /\ s'.gameEnd => (s'.lives = 0 \/ noneLeft')
        /\ (tickTaken /\ s.started /\ ~s'.gameEnd)
              => (s'.lives >= 1 /\ ~noneLeft') ]_vars

\* C9 witness: a run ended by level completion, with lives left.
C9_Witness ==
    /\ s.gameEnd
    /\ s.lives >= 1
    /\ Len(pipeDefs) > 0
    /\ noneLeft

\* C10: lives stays within 0..INITIAL_LIVES and never grows inside a run.
C10_LivesRange ==
    /\ [](s.lives >= 0 /\ s.lives <= INITIAL_LIVES)
    /\ [][ sameRun => s'.lives <= s.lives ]_vars
    /\ [][ ~sameRun => s'.lives = INITIAL_LIVES ]_vars

\* C10 witness: after a run that lost all its lives, the next run started from
\* 3 lives and has lost its first one.
C10_Witness ==
    /\ runs >= 1
    /\ Len(pipeDefs) > 0
    /\ s.started
    /\ s.lives = INITIAL_LIVES - 1

----------------------------------------------------------------------------
(* The run status: Idle, Running, Ended *)

\* C11: in Idle (started = false, gameEnd = false) a tick leaves the whole
\* State unchanged, however many ticks arrive before the start click.
C11_IdleTickNoOp ==
    [][ (tickTaken /\ ~s.started /\ ~s.gameEnd) => s' = s ]_vars

\* C11 witness: a run with a pipe schedule has received a tick in Idle, while
\* the RNG went on.
C11_Witness ==
    /\ ~s.started
    /\ ~s.gameEnd
    /\ idleTicks >= 1
    /\ Len(s.remainingDefs) > 0
    /\ seed # SEED0

\* C12: the restart (Ended -> Idle) puts every field of State back to its
\* initial value, remainingDefs to the full schedule, whatever the ended State
\* was; the catalog keeps every recording it had.
C12_ResetOnRestart ==
    [][ (runs' # runs) =>
          /\ s.gameEnd
          /\ s' = [ gameEnd |-> FALSE,
                    birdY |-> 185 * YScale,
                    birdVy |-> 0,
                    pipes |-> <<>>,
                    score |-> 0,
                    lives |-> 3,
                    elapsed |-> 0,
                    remainingDefs |-> pipeDefs,
                    scoredIds |-> <<>>,
                    nextPipeId |-> 1,
                    hurtCooldown |-> 0,
                    flapCooldown |-> 0,
                    started |-> FALSE,
                    ghostYs |-> <<>> ]
          /\ Len(ghostFramesAll') >= Len(ghostFramesAll)
          /\ \A k \in 1..Len(ghostFramesAll) :
                ghostFramesAll'[k] = ghostFramesAll[k] ]_vars

\* C12 witness: the second restart of a session with a pipe schedule: State is
\* back at its initial values and the catalog holds both recordings.
C12_Witness ==
    /\ runs = 2
    /\ ~clicked
    /\ idleTicks = 0
    /\ Len(pipeDefs) > 0
    /\ s.remainingDefs = pipeDefs
    /\ s.lives = INITIAL_LIVES
    /\ s.score = 0
    /\ Len(ghostFramesAll) = 2

\* C13: the status moves only Idle -> Running -> Ended -> Idle.  started turns
\* true only by the run's first start click, gameEnd turns true only by a tick
\* taken in Running, both turn false only by the restart reset, which is taken
\* in Ended and leads to Idle; gameEnd without started does not occur.
C13_Lifecycle ==
    /\ [](s.gameEnd => s.started)
    /\ [][ /\ (~s.started /\ s'.started)
                => (~clicked /\ clicked' /\ ~tickTaken /\ ~s'.gameEnd)
           /\ (clicked /\ sameRun) => (clicked' /\ s'.started)
           /\ (~s.gameEnd /\ s'.gameEnd) => (tickTaken /\ s.started)
           /\ (s.started /\ ~s'.started) => (~sameRun /\ s.gameEnd)
           /\ (s.gameEnd /\ ~s'.gameEnd) => ~sameRun
           /\ ~sameRun => (s.gameEnd /\ ~s'.started /\ ~s'.gameEnd) ]_vars

\* C13 witness: a second run went Idle -> Running -> Ended after the first
\* run's restart, with pointer-downs after its start click.
C13_Witness ==
    /\ runs >= 1
    /\ s.started
    /\ s.gameEnd
    /\ flaps >= 1
    /\ sinceStart >= 2

----------------------------------------------------------------------------
(* Hits, lives and the invulnerability window *)

runningTick == tickTaken /\ s.started /\ ~s.gameEnd

\* the r handed to the tick that has just been taken
tickR == randStep(seed').value

\* the rectangle kinds the bird box of the new State overlaps
rectKinds ==
    LET box == [x |-> birdX, y |-> s'.birdY, w |-> BIRB_WIDTH,
                h |-> BIRB_HEIGHT * YScale]
    IN  {rectHit(s'.pipes[i], box) : i \in 1..Len(s'.pipes)} \ {"none"}

\* C14 as stated: on a Running tick that clamps the bird to TOP or GROUND the
\* new birdVy is the boundary bounce, bumpDown at TOP and -bumpUp at GROUND,
\* whatever the pipes.
C14_Original ==
    [][ runningTick =>
          /\ (s'.birdY = GROUND => s'.birdVy = -bumpUp(tickR))
          /\ (s'.birdY = TOP => s'.birdVy = bumpDown(tickR)) ]_vars

\* C14 amended: on a Running tick that clamps the bird to TOP or GROUND the
\* pipes are still tested against the clamped box: the new birdVy is the
\* boundary bounce when no rectangle overlaps the box, bumpDown when a top
\* rectangle does and -bumpUp when a bottom rectangle does.
C14_BounceAtBoundary ==
    [][ (runningTick /\ (s'.birdY = GROUND \/ s'.birdY = TOP)) =>
          /\ rectKinds = {} =>
                s'.birdVy = IF s'.birdY = TOP THEN bumpDown(tickR)
                            ELSE -bumpUp(tickR)
          /\ rectKinds = {"top"} => s'.birdVy = bumpDown(tickR)
          /\ rectKinds = {"bottom"} => s'.birdVy = -bumpUp(tickR) ]_vars

\* C14 witness: the bird lies clamped on the ground under a top rectangle and
\* was bounced downwards by it.
C14_Witness ==
    /\ s.started
    /\ ~s.gameEnd
    /\ s.birdY = GROUND
    /\ s.birdVy > 0
    /\ \E i \in 1..Len(s.pipes) : s.pipes[i].x < birdX + BIRB_WIDTH
                                  /\ s.pipes[i].x + PIPE_WIDTH > birdX

\* the tick that has just been taken registered a hit: edge clamp or rectangle
hitNow == s'.birdY = TOP \/ s'.birdY = GROUND \/ rectKinds # {}

\* C15 as stated: a Running tick takes exactly one life iff it registers a hit
\* and the hurtCooldown held by the State when the tick arrives is <= 0;
\* otherwise lives is unchanged.
C15_Original ==
    [][ runningTick =>
          IF hitNow /\ s.hurtCooldown <= 0
          THEN s'.lives = s.lives - 1
          ELSE s'.lives = s.lives ]_vars

\* C15 amended: a Running tick takes exactly one life iff it registers a hit
\* and the hurtCooldown left after the tick's own decrement,
\* max(0, hurtCooldown - dt), is <= 0; otherwise lives is unchanged.
C15_LifeLoss ==
    [][ runningTick =>
          IF hitNow /\ Max2(0, s.hurtCooldown - TICK_RATE_MS) <= 0
          THEN s'.lives = s.lives - 1
          ELSE s'.lives = s.lives ]_vars

\* C15 witness: a hit at the top edge has just cost the first life.
C15_Witness ==
    /\ s.started
    /\ s.birdY = TOP
    /\ lossAt = s.elapsed
    /\ s.lives = INITIAL_LIVES - 1
    /\ s.hurtCooldown = HURT_COOLDOWN_MS

\* C16 as stated: every tick that takes a life, the last life included, leaves
\* hurtCooldown at the invulnerability window 0.6 s.
C16_Original ==
    [][ (runningTick /\ s'.lives < s.lives)
            => s'.hurtCooldown = HURT_COOLDOWN_MS ]_vars

\* C16 amended: a tick that takes a life leaves hurtCooldown at 0.6 s unless
\* the tick ends the game; on the tick that ends the game hurtCooldown stays 0.
C16_WindowAfterLoss ==
    [][ (runningTick /\ s'.lives < s.lives) =>
          s'.hurtCooldown = IF s'.gameEnd THEN 0 ELSE HURT_COOLDOWN_MS ]_vars

\* C16 witness: the tick that took the last life has ended the game and left
\* no window.
C16_Witness ==
    /\ s.gameEnd
    /\ s.lives = 0
    /\ endedTicks = 0
    /\ lossAt = s.elapsed
    /\ s.hurtCooldown = 0

----------------------------------------------------------------------------
(* The recorder *)

\* C17: the recording appended for a run holds one sample per tick taken since
\* the start click, in order: each such tick appends the birdY its physics
\* step produced, a tick before the start click appends nothing, no other
\* event touches the buffer, and the restart appends exactly this buffer.
C17_RecordingSamples ==
    [][ /\ (tickTaken /\ s.started) => rec' = Append(rec, s'.birdY)
        /\ (tickTaken /\ ~s.started) => (rec = <<>> /\ rec' = <<>>)
        /\ (~tickTaken /\ sameRun) => rec' = rec
        /\ ~sameRun => /\ Len(rec) = sinceStart
                       /\ ghostFramesAll' = Append(ghostFramesAll, rec) ]_vars

\* C17 witness: the first run received a tick before its start click and more
\* than a hundred after it; its recording is in the catalog, one sample per
\* tick since start.
C17_Witness ==
    /\ runs = 1
    /\ ~clicked
    /\ idleTicks = 0
    /\ Len(ghostFramesAll) = 1
    /\ Len(ghostFramesAll[1]) > 100
    /\ Len(ghostFramesAll[1]) = sessionTicks - 1

\* the recording the restart step has just appended
appended == ghostFramesAll'[Len(ghostFramesAll')]

\* C18 as stated: the appended recording has one sample per tick from the
\* start click to the tick that set gameEnd; the ticks taken in Ended add none.
C18_Original ==
    [][ ~sameRun => Len(appended) = sinceStart - endedTicks ]_vars

\* C18 amended: the appended recording has one sample per tick from the start
\* click to the restart: the Running ticks (elapsed / dt) and every tick taken
\* in Ended, each of which adds a sample; its last sample is the birdY of the
\* State the restart found.
C18_RecordingLength ==
    [][ /\ (tickTaken /\ s.gameEnd) => Len(rec') = Len(rec) + 1
        /\ ~sameRun =>
              /\ Len(appended) = s.elapsed \div TICK_RATE_MS + endedTicks
              /\ Len(appended) = sinceStart
              /\ appended[Len(appended)] = s.birdY ]_vars

\* C18 witness: the first recording of the catalog ends with a sample taken
\* below the ground line, where only the bird of an ended run falls.
C18_Witness ==
    /\ runs >= 1
    /\ Len(ghostFramesAll) >= 1
    /\ ghostFramesAll[1][Len(ghostFramesAll[1])] > GROUND

\* C19: every recording of the catalog has at least one sample, so the ghost
\* lookup fr[min(idx, len - 1)] never reads below index 0.
C19_NoEmptyRecording ==
    /\ \A k \in 1..Len(ghostFramesAll) : Len(ghostFramesAll[k]) >= 1
    /\ \A k \in 1..Len(framesList) : Len(framesList[k]) >= 1

\* C19 witness: the shortest run there is (empty schedule, one tick, restart at
\* once) left a recording of one sample, and the next run's ghost has played
\* past its end.
C19_Witness ==
    /\ runs >= 1
    /\ clicked
    /\ Len(framesList) >= 1
    /\ Len(framesList[1]) = 1
    /\ ghostIdx >= 1
    /\ Len(s.ghostYs) >= 1

----------------------------------------------------------------------------
(* The schedule *)

\* C20: the defs already spawned and the defs still waiting partition the
\* schedule: (nextPipeId - 1) + Len(remainingDefs) = Len(schedule), the waiting
\* defs are the schedule from nextPipeId on, and every live pipe is the
\* obstacle of the def of its id, one pipe per id.
C20_DefsPartition ==
    /\ (s.nextPipeId - 1) + Len(s.remainingDefs) = Len(pipeDefs)
    /\ \A j \in 1..Len(s.remainingDefs) :
          s.remainingDefs[j] = pipeDefs[s.nextPipeId - 1 + j]
    /\ \A i \in 1..Len(s.pipes) :
          /\ s.pipes[i].id >= 1
          /\ s.pipes[i].id < s.nextPipeId
          /\ s.pipes[i].gapY = pipeDefs[s.pipes[i].id].gapYpx
          /\ s.pipes[i].gapH = pipeDefs[s.pipes[i].id].gapHpx
          /\ \A j \in 1..Len(s.pipes) : s.pipes[j].id = s.pipes[i].id => j = i

\* C20 witness: both defs of a two-def schedule were spawned by one tick and
\* are live pipes 1 and 2.
C20_Witness ==
    /\ Len(pipeDefs) = 2
    /\ s.nextPipeId = 3
    /\ Len(s.remainingDefs) = 0
    /\ Len(s.pipes) = 2
    /\ s.pipes[1].id = 1
    /\ s.pipes[2].id = 2

----------------------------------------------------------------------------
(* Spawning, ids and the schedule *)

\* C21 as stated: in a started run that keeps receiving ticks remainingDefs
\* eventually becomes empty.
C21_Original == s.started ~> (Len(s.remainingDefs) = 0)

\* C21 amended: in a started run that keeps receiving ticks, eventually
\* remainingDefs is empty or the run has lost its last life; from gameEnd on
\* no def is spawned any more.
C21_SpawnOrDie ==
    /\ s.started ~> (Len(s.remainingDefs) = 0 \/ (s.gameEnd /\ s.lives = 0))
    /\ [][ (s.gameEnd /\ sameRun) => s'.remainingDefs = s.remainingDefs ]_vars

\* C21 witness: the late def of a schedule was spawned in a run still Running.
C21_Witness ==
    /\ Len(pipeDefs) = 3
    /\ pipeDefs[3].time > 0
    /\ s.started
    /\ ~s.gameEnd
    /\ Len(s.remainingDefs) = 0
    /\ flaps >= 1

\* C22: every live pipe has 1 <= id < nextPipeId, the ids of pipes are strictly
\* increasing in list order (so pairwise distinct), and the pipe with id j is
\* the obstacle of the j-th def of the schedule: it has that def's gap, also
\* when several defs fell due on one tick.
C22_IdsFollowSchedule ==
    /\ \A i \in 1..Len(s.pipes) :
          /\ 1 <= s.pipes[i].id
          /\ s.pipes[i].id < s.nextPipeId
          /\ s.pipes[i].id <= Len(pipeDefs)
          /\ s.pipes[i].gapY = pipeDefs[s.pipes[i].id].gapYpx
          /\ s.pipes[i].gapH = pipeDefs[s.pipes[i].id].gapHpx
    /\ \A i, j \in 1..Len(s.pipes) : i < j => s.pipes[i].id < s.pipes[j].id

\* C22 witness: two different defs fell due on the first tick and a third one
\* later; the three pipes are live with ids 1, 2, 3 in list order.
C22_Witness ==
    /\ Len(pipeDefs) = 3
    /\ Len(s.pipes) = 3
    /\ s.pipes[1].id = 1
    /\ s.pipes[2].id = 2
    /\ s.pipes[3].id = 3
    /\ s.pipes[1].gapY # s.pipes[2].gapY
    /\ s.pipes[1].x = s.pipes[2].x
    /\ s.pipes[3].x > s.pipes[2].x
    /\ s.nextPipeId = 4

\* C23: the schedule is sorted by time and remainingDefs is a suffix of it;
\* once a Running tick was taken (elapsed > 0) the defs removed are exactly
\* those with time <= elapsed, a prefix, and every def left has time > elapsed.
C23_RemainingSuffix ==
    /\ \A i, j \in 1..Len(pipeDefs) : i < j => pipeDefs[i].time <= pipeDefs[j].time
    /\ \E k \in 0..Len(pipeDefs) :
          /\ s.remainingDefs = SubSeq(pipeDefs, k + 1, Len(pipeDefs))
          /\ s.elapsed > 0 =>
                /\ \A j \in 1..k : pipeDefs[j].time <= s.elapsed
                /\ \A j \in (k + 1)..Len(pipeDefs) : pipeDefs[j].time > s.elapsed

\* C23 witness: the first tick whose elapsed reaches the time of the last def
\* has removed it; the tick before had left it.
C23_Witness ==
    /\ Len(pipeDefs) = 3
    /\ s.elapsed >= pipeDefs[3].time
    /\ s.elapsed - TICK_RATE_MS < pipeDefs[3].time
    /\ ~s.gameEnd
    /\ Len(s.remainingDefs) = 0
    /\ Len(s.pipes) >= 1
    /\ s.pipes[Len(s.pipes)].x = CANVAS_WIDTH - (PIPE_SPEED * TICK_RATE_MS) \div 1000

----------------------------------------------------------------------------
(* elapsed and scoring *)

\* C24: elapsed is dt times the number of Running ticks of the run: every
\* Running tick adds dt, while flaps, the start click, ghost updates and the
\* ticks of Idle and Ended leave it, and the reset puts it back to 0.
C24_ElapsedCountsRunningTicks ==
    /\ s.elapsed = TICK_RATE_MS * (sinceStart - endedTicks)
    /\ ~s.started => s.elapsed = 0

\* C24 witness: a second run received a tick in Idle, Running ticks, ghost
\* updates, a flap and ticks in Ended.
C24_Witness ==
    /\ runs >= 1
    /\ idleTicks >= 1
    /\ ghostIdx >= 2
    /\ flaps >= 1
    /\ s.gameEnd
    /\ endedTicks >= 2
    /\ s.elapsed >= 2 * TICK_RATE_MS

\* the ids the step has just added to scoredIds
addedIds ==
    {s'.scoredIds[k] : k \in (Len(s.scoredIds) + 1)..Len(s'.scoredIds)}

\* the step left the old scoredIds as a prefix of the new one
scoredGrows ==
    /\ Len(s'.scoredIds) >= Len(s.scoredIds)
    /\ SubSeq(s'.scoredIds, 1, Len(s.scoredIds)) = s.scoredIds

\* C25 as stated: within a run scoredIds only grows, the reset empties it, and
\* a pipe whose id is added has no horizontal overlap with the bird box left.
C25_Original ==
    [][ /\ sameRun => scoredGrows
        /\ ~sameRun => s'.scoredIds = <<>>
        /\ sameRun =>
              \A id \in addedIds : \E i \in 1..Len(s'.pipes) :
                  /\ s'.pipes[i].id = id
                  /\ ~(/\ s'.pipes[i].x < birdX + BIRB_WIDTH
                       /\ s'.pipes[i].x + PIPE_WIDTH > birdX) ]_vars

\* C25 amended: within a run scoredIds only grows, the reset empties it, and
\* an id is added on the first tick that leaves its pipe's trailing edge left
\* of the bird's right edge, with no regard to the bird's left edge.
C25_ScoredAtRightEdge ==
    [][ /\ sameRun => scoredGrows
        /\ ~sameRun => s'.scoredIds = <<>>
        /\ sameRun =>
              \A id \in addedIds : \E i \in 1..Len(s'.pipes) :
                  /\ s'.pipes[i].id = id
                  /\ s'.pipes[i].x + PIPE_WIDTH < birdX + BIRB_WIDTH
                  /\ s'.pipes[i].x + (PIPE_SPEED * TICK_RATE_MS) \div 1000
                        + PIPE_WIDTH >= birdX + BIRB_WIDTH ]_vars

\* C25 witness: a pipe is scored and still overlaps the bird box horizontally.
C25_Witness ==
    /\ s.score >= 1
    /\ \E i \in 1..Len(s.pipes) :
          /\ s.pipes[i].id \in scoredSet
          /\ s.pipes[i].x < birdX + BIRB_WIDTH
          /\ s.pipes[i].x + PIPE_WIDTH > birdX

----------------------------------------------------------------------------
(* Scenarios *)

\* Scenario A: the schedule of the one row 0.5,0.25,1.0 played in the first
\* run with no pointer-down after the start click
scenarioA ==
    /\ pipeDefs = << PipeDef(1000, 200, 130) >>
    /\ runs = 0
    /\ flaps = 0
    /\ ~burst
    /\ s.started

\* C26: in Scenario A the bird is above GROUND while lives = 3, which lasts for
\* less than 1.0 s of elapsed; the tick that takes the first life is a tick
\* with elapsed < 1.0 s that leaves the bird at GROUND, lives = 2 and gameEnd
\* false.
C26_ScenarioA ==
    scenarioA =>
        /\ s.lives = INITIAL_LIVES => (s.birdY < GROUND /\ s.elapsed < 1000)
        /\ s.elapsed >= 1000 => s.lives < INITIAL_LIVES
        /\ (s.lives = 2 /\ lossAt = s.elapsed) =>
              /\ s.birdY = GROUND
              /\ s.elapsed < 1000
              /\ ~s.gameEnd
              /\ Len(s.pipes) = 0

\* C26 witness: the ground-hit tick of Scenario A.
C26_Witness ==
    /\ scenarioA
    /\ s.birdY = GROUND
    /\ s.lives = 2
    /\ lossAt = s.elapsed
    /\ s.elapsed < 1000
    /\ ~s.gameEnd

\* the birdY sampled on the tick that set gameEnd
deathY == rec[Len(rec) - endedTicks]

\* the run was ended by its last life, on a tick whose bird box overlapped top
\* rectangles only (the pipes stand still since)
diedByTop ==
    /\ s.gameEnd
    /\ s.lives = 0
    /\ LET box == [x |-> birdX, y |-> deathY, w |-> BIRB_WIDTH,
                   h |-> BIRB_HEIGHT * YScale]
       IN  {rectHit(s.pipes[i], box) : i \in 1..Len(s.pipes)} \ {"none"}
              = {"top"}

\* C27 (Scenario B): a tick that arrives with lives = 1 and hurtCooldown = 0
\* and leaves the bird box overlapping a top rectangle yields lives = 0 and
\* gameEnd at once; every later tick of the run lets birdY grow and leaves
\* score and pipes alone.
C27_ScenarioB ==
    [][ /\ (runningTick /\ s.lives = 1 /\ s.hurtCooldown = 0
                /\ rectKinds = {"top"})
              => (s'.lives = 0 /\ s'.gameEnd)
        /\ (tickTaken /\ diedByTop)
              => /\ s'.birdY > s.birdY
                 /\ s'.score = s.score
                 /\ s'.pipes = s.pipes
                 /\ s'.gameEnd ]_vars

\* C27 witness: the bird that never flaps was hit in the air by the top
\* rectangle of the pipe of time 40 ms with its last life, and has fallen for
\* two ticks since.
C27_Witness ==
    /\ pipeDefs = << PipeDef(40, 360, 30) >>
    /\ flaps = 0
    /\ ~burst
    /\ diedByTop
    /\ deathY < GROUND
    /\ endedTicks >= 2
    /\ s.birdY > deathY

\* C28 (Scenario C): when run 1 was finalized with a recording of ScenarioLen
\* samples, every tick of run 2 after the start click (tick i = sinceStart - 1)
\* leaves ghostYs with one element: sample i of that recording while
\* i < ScenarioLen, and its last sample from then on.
C28_ScenarioC ==
    (/\ runs = 1
     /\ Len(ghostFramesAll) = 1
     /\ Len(ghostFramesAll[1]) = ScenarioLen
     /\ pc = "ready"
     /\ sinceStart >= 1)
        => /\ Len(s.ghostYs) = 1
           /\ LET i == sinceStart - 1
              IN  s.ghostYs[1] = IF i < ScenarioLen
                                 THEN ghostFramesAll[1][i + 1]
                                 ELSE ghostFramesAll[1][ScenarioLen]

\* C28 witness: run 2 is two ticks past the end of the 50-sample recording of
\* run 1, whose last two samples differ, and the ghost holds the last one.
C28_Witness ==
    /\ runs = 1
    /\ Len(ghostFramesAll) = 1
    /\ Len(ghostFramesAll[1]) = ScenarioLen
    /\ pc = "ready"
    /\ sinceStart = ScenarioLen + 2
    /\ ghostFramesAll[1][ScenarioLen] # ghostFramesAll[1][ScenarioLen - 1]
    /\ s.ghostYs = << ghostFramesAll[1][ScenarioLen] >>

\* the events a step can carry, told apart by the bookkeeping they move
stepEvents ==
    { e \in {"reset", "start", "tick", "flap", "ghost"} :
        \/ e = "reset" /\ runs' # runs
        \/ e = "start" /\ clicked' /\ ~clicked
        \/ e = "tick"  /\ tickTaken
        \/ e = "flap"  /\ (flaps' # flaps
                            \/ (pc = "ready" /\ burstDue /\ earlyR' = earlyR))
        \/ e = "ghost" /\ pc = "ghost" }

\* C29: every step folds at most one event, and the State after it is that
\* event's reducer applied once to the State before it (the State just before
\* the step, whatever flaps and ticks came earlier); a step without an event
\* leaves the State alone.
C29_OneReducerPerEvent ==
    [][ /\ Cardinality(stepEvents) <= 1
        /\ stepEvents = {} => s' = s
        /\ "reset" \in stepEvents => s' = resetReducer(s)
        /\ "start" \in stepEvents => s' = startReducer(s)
        /\ "tick"  \in stepEvents => s' = stepReducer(TICK_RATE_MS, tickR, s)
        /\ "flap"  \in stepEvents => s' = rawFlap(s)
        /\ "ghost" \in stepEvents
              => s' = ghostReducer(s, framesList, ghostIdx + 1) ]_vars

\* C29 witness: a second run with a ghost on screen in which a flap has just
\* been folded between two ticks: its velocity and cooldown are in the State,
\* on top of what the ticks and ghost updates before it left there.
C29_Witness ==
    /\ runs >= 1
    /\ pc = "ready"
    /\ ghostIdx >= 0
    /\ Len(s.ghostYs) >= 1
    /\ s.elapsed > 0
    /\ ~s.gameEnd
    /\ flaps >= 1
    /\ s.flapCooldown = FLAP_COOLDOWN_MS
    /\ s.birdVy = FLAP_VELOCITY * VScale

\* the velocity and height a tick integrates from the State it finds
tickVy0 == s.birdVy + gravityStep(TICK_RATE_MS)
tickY0 == s.birdY + fallStep(tickVy0, TICK_RATE_MS)

\* C30: a Running tick integrates vy0 = birdVy + GRAVITY*dt and
\* y0 = birdY + vy0*dt and leaves birdY = y0 clamped to [TOP, GROUND]; the
\* velocity it leaves, when no pipe rectangle bumps the bird, is vy0 if y0 lay
\* strictly inside, bumpDown if it was clamped to TOP and -bumpUp if it was
\* clamped to GROUND. Hence TOP <= birdY <= GROUND in every state with
\* gameEnd = false.
C30_IntegrateAndClamp ==
    /\ [](~s.gameEnd => (TOP <= s.birdY /\ s.birdY <= GROUND))
    /\ [][ runningTick =>
             /\ s'.birdY = (IF tickY0 >= GROUND THEN GROUND
                            ELSE IF tickY0 <= TOP THEN TOP ELSE tickY0)
             /\ rectKinds = {} =>
                   s'.birdVy = (IF tickY0 <= TOP THEN bumpDown(tickR)
                                ELSE IF tickY0 >= GROUND THEN -bumpUp(tickR)
                                ELSE tickVy0) ]_vars

\* C30 witness: a running bird that rose past the top line lies clamped on it,
\* sent downwards by the bounce, while an earlier State of the session could
\* not have been there without flaps.
C30_Witness ==
    /\ s.started
    /\ ~s.gameEnd
    /\ burst
    /\ s.birdY = TOP
    /\ s.birdVy >= 150 * VScale
    /\ s.pipes = <<>>

\* the rectangles of the pipes of the new State in the order of the test:
\* pipe by pipe in list order, the top rectangle (0 .. gapY - gapH/2) before
\* the bottom one (gapY + gapH/2 .. CANVAS_HEIGHT)
rectList ==
    [n \in 1..(2 * Len(s'.pipes)) |->
        LET p == s'.pipes[(n + 1) \div 2]
            half == (p.gapH * YScale) \div 2
            lo == Max2(0, p.gapY * YScale - half)
            hi == Min2(CANVAS_HEIGHT * YScale, p.gapY * YScale + half)
        IN  IF n % 2 = 1
            THEN [kind |-> "top", x |-> p.x, y |-> 0, w |-> PIPE_WIDTH, h |-> lo]
            ELSE [kind |-> "bottom", x |-> p.x, y |-> hi, w |-> PIPE_WIDTH,
                  h |-> CANVAS_HEIGHT * YScale - hi]]

\* the places of rectList the bird box of the new State overlaps
rectsHit ==
    LET box == [x |-> birdX, y |-> s'.birdY, w |-> BIRB_WIDTH,
                h |-> BIRB_HEIGHT * YScale]
    IN  {n \in DOMAIN rectList : overlaps(box, rectList[n])}

firstRect == rectList[CHOOSE n \in rectsHit : \A k \in rectsHit : n <= k]

\* C31: on a Running tick whose bird box overlaps some rectangle, the first
\* overlapping rectangle in test order decides birdVy: bumpDown for a top
\* rectangle, -bumpUp for a bottom one, whatever the later rectangles and
\* whatever hurtCooldown; birdY is the clamped height of the integration, the
\* hit does not move it.
C31_FirstRectangleWins ==
    [][ (runningTick /\ rectsHit # {}) =>
          /\ s'.birdVy = (IF firstRect.kind = "top" THEN bumpDown(tickR)
                          ELSE -bumpUp(tickR))
          /\ s'.birdY = clampY(tickY0) ]_vars

\* the pipes of the State stand on the bird box, and the first rectangle over
\* it is of another kind than a later one
mixedRects ==
    LET box == [x |-> birdX, y |-> s.birdY, w |-> BIRB_WIDTH,
                h |-> BIRB_HEIGHT * YScale]
        kinds == [i \in 1..Len(s.pipes) |-> rectHit(s.pipes[i], box)]
    IN  /\ Len(s.pipes) = 2
        /\ kinds[1] = "bottom"
        /\ kinds[2] = "top"

\* C31 witness: the bird is over the bottom rectangle of the first pipe and
\* the top rectangle of the second, was bounced upwards by the first, and the
\* hit cost no life because the cooldown of an earlier hit was running.
C31_Witness ==
    /\ s.started
    /\ ~s.gameEnd
    /\ mixedRects
    /\ s.birdY < GROUND
    /\ s.flapCooldown = 0
    /\ s.birdVy <= -250 * VScale
    /\ s.hurtCooldown > 0
    /\ s.hurtCooldown < HURT_COOLDOWN_MS
    /\ lossAt # -1
    /\ lossAt < s.elapsed

\* the defs of the State due at the elapsed time the tick advances to
dueDefs ==
    LET isDue(d) == d.time <= s.elapsed + TICK_RATE_MS
    IN  SelectSeq(s.remainingDefs, isDue)

\* what the spawn and move of a tick leave of a pipe list: every pipe
\* PIPE_SPEED * dt further left, those wholly past the left edge taken out
shifted(ps) ==
    LET left == [i \in 1..Len(ps) |->
                    [id |-> ps[i].id, x |-> ps[i].x - (PIPE_SPEED * TICK_RATE_MS) \div 1000,
                     gapY |-> ps[i].gapY, gapH |-> ps[i].gapH]]
        gone(p) == p.x + PIPE_WIDTH < 0
        stays(p) == ~gone(p)
    IN  SelectSeq(left, stays)

\* C32: on a Running tick the pipes of the new State are the old pipes moved
\* left by PIPE_SPEED*dt, without those whose right edge fell below 0 and in
\* their old order with their id, gapY and gapH, followed by one pipe per due
\* def in schedule order, created at CANVAS_WIDTH with the def's gap and moved
\* by the same step in this tick.
C32_SpawnMoveCull ==
    [][ runningTick =>
          LET old == shifted(s.pipes)
              new == SubSeq(s'.pipes, Len(old) + 1, Len(s'.pipes))
          IN  /\ Len(s'.pipes) = Len(old) + Len(dueDefs)
              /\ SubSeq(s'.pipes, 1, Len(old)) = old
              /\ \A i \in 1..Len(dueDefs) :
                    /\ new[i].x = CANVAS_WIDTH - (PIPE_SPEED * TICK_RATE_MS) \div 1000
                    /\ new[i].gapY = dueDefs[i].gapYpx
                    /\ new[i].gapH = dueDefs[i].gapHpx ]_vars

\* C32 witness: the two pipes of the first tick have left the screen and been
\* removed while the pipe spawned behind them is still on its way.
C32_Witness ==
    /\ Len(pipeDefs) = 3
    /\ s.started
    /\ ~s.gameEnd
    /\ s.remainingDefs = <<>>
    /\ Len(s.pipes) = 1
    /\ s.pipes[1].id = 3
    /\ s.pipes[1].x + PIPE_WIDTH < CANVAS_WIDTH - 100

\* the generator's first seeds, 0xc0ffee and its three successors under
\* seed -> (1664525 * seed + 1013904223) mod 2^32, as 16-bit halves
firstSeeds ==
    << [hi |-> 192, lo |-> 65518],
       [hi |-> 10866, lo |-> 50805],
       [hi |-> 32962, lo |-> 42320],
       [hi |-> 30975, lo |-> 14447] >>

\* C33: a tick, idle, running or ended, advances the seed of the generator by
\* one randStep; the reset of a run puts it back to SEED0; no other event
\* touches it. The first ticks of every run therefore find the same seeds.
C33_RngPerTick ==
    /\ [][ /\ tickTaken => seed' = randStep(seed).nextSeed
           /\ runs' # runs => seed' = SEED0
           /\ (~tickTaken /\ sameRun) => seed' = seed ]_vars
    /\ [](idleTicks + sinceStart < Len(firstSeeds)
            => seed = firstSeeds[idleTicks + sinceStart + 1])

\* C33 witness: a later run has taken an idle tick, a running tick and ended
\* ticks, with flaps and an ignored restart key in the session.
C33_Witness ==
    /\ runs >= 1
    /\ idleTicks = 1
    /\ s.gameEnd
    /\ endedTicks >= 2
    /\ sinceStart = endedTicks + 1
    /\ flaps >= 1
    /\ earlyR >= 1
    /\ seed # SEED0

\* (1664525 * seed + 1013904223) mod 2^32 by long multiplication on bytes:
\* the seed, a and c as little-endian base-256 digits, carries kept apart
lcg32(sd) ==
    LET x == << sd.lo % 256, sd.lo \div 256, sd.hi % 256, sd.hi \div 256 >>
        a == << 13, 102, 25, 0 >>               \* 1664525 = 0x0019660D
        c == << 95, 243, 110, 60 >>             \* 1013904223 = 0x3C6EF35F
        d1 == a[1] * x[1] + c[1]
        d2 == a[1] * x[2] + a[2] * x[1] + c[2] + d1 \div 256
        d3 == a[1] * x[3] + a[2] * x[2] + a[3] * x[1] + c[3] + d2 \div 256
        d4 == a[1] * x[4] + a[2] * x[3] + a[3] * x[2] + a[4] * x[1] + c[4]
                 + d3 \div 256
    IN  [hi |-> (d4 % 256) * 256 + (d3 % 256),
         lo |-> (d2 % 256) * 256 + (d1 % 256)]

\* C34: for the seed at hand randStep returns nextSeed =
\* (1664525*seed + 1013904223) mod 2^32, an unsigned 32-bit integer, and a
\* value in [0, 1), here its leading RBits bits; with that value
\* 150 <= bumpDown < 350 and 250 <= bumpUp < 420.
C34_RandStepRange ==
    LET out == randStep(seed)
    IN  /\ out.nextSeed = lcg32(seed)
        /\ out.nextSeed.hi \in 0..(Half - 1)
        /\ out.nextSeed.lo \in 0..(Half - 1)
        /\ out.value = out.nextSeed.hi \div (Half \div (2 ^ RBits))
        /\ 0 <= out.value /\ out.value < 2 ^ RBits
        /\ 150 * VScale <= bumpDown(out.value)
        /\ bumpDown(out.value) < 350 * VScale
        /\ 250 * VScale <= bumpUp(out.value)
        /\ bumpUp(out.value) < 420 * VScale

\* C34 witness: the generator has stepped from the largest seed, 2^32 - 1,
\* whose product with the multiplier wraps around 2^32 the most times, to
\* 0x3C558D52.
C34_Witness ==
    /\ sessionTicks = 1
    /\ seed = [hi |-> 15445, lo |-> 36178]
    /\ seed = lcg32([hi |-> Half - 1, lo |-> Half - 1])

\* C35: a flap that finds gameEnd = false and flapCooldown <= 0 sets birdVy to
\* FLAP_VELOCITY and flapCooldown to FLAP_COOLDOWN_MS and nothing else; any
\* other flap leaves the State as it is. Every flap comes after the start
\* input, the start input only sets started, and a Running tick takes dt off
\* flapCooldown down to 0, so that a flap less than 0.12 s after an effective
\* one changes nothing.
C35_FlapEffect ==
    [][ /\ "flap" \in stepEvents =>
              /\ clicked
              /\ s.started
              /\ s' = IF ~s.gameEnd /\ s.flapCooldown <= 0
                      THEN [s EXCEPT !.birdVy = FLAP_VELOCITY * VScale,
                                     !.flapCooldown = FLAP_COOLDOWN_MS]
                      ELSE s
        /\ "start" \in stepEvents => s' = [s EXCEPT !.started = TRUE]
        /\ runningTick =>
              s'.flapCooldown = Max2(0, s.flapCooldown - TICK_RATE_MS) ]_vars

\* C35 witness: a second pointer-down came EchoLag ticks after an effective
\* flap and was ignored: the bird has the velocity and the cooldown that flap
\* and the ticks since have left.
C35_Witness ==
    /\ flaps = 2
    /\ ~s.gameEnd
    /\ sinceStart = EchoLag
    /\ s.flapCooldown = FLAP_COOLDOWN_MS - EchoLag * TICK_RATE_MS
    /\ s.birdVy = FLAP_VELOCITY * VScale + EchoLag * gravityStep(TICK_RATE_MS)

\* the run in progress has had the inputs of the k-th run of the session up to
\* its last tick: as many idle ticks, and flaps after the same ticks
sameInputs(k) ==
    LET now == inputs[Len(inputs)]
        past == inputs[k]
    IN  /\ past.idle = now.idle
        /\ {t \in past.taps : t < sinceStart} = {t \in now.taps : t < sinceStart}

\* C36: after a tick since start and its ghost update, the ghost of every
\* earlier run whose inputs the run in progress has repeated so far, and whose
\* recording reaches that tick, is at the height of the live bird.
C36_NoDrift ==
    (pc = "ready" /\ clicked /\ ghostOn /\ sinceStart >= 1) =>
        \A k \in 1..Len(framesList) :
            (sameInputs(k) /\ sinceStart - 1 < Len(framesList[k]))
                => s.ghostYs[k] = s.birdY

\* C36 witness: a later run repeats the first run, one idle tick and one flap
\* included, has bounced with a drawn r like it, and flies level with its
\* ghost.
C36_Witness ==
    /\ runs >= 1
    /\ pc = "ready"
    /\ ghostOn
    /\ ~s.gameEnd
    /\ s.lives < INITIAL_LIVES
    /\ inputs[1].idle = 1
    /\ inputs[1].taps # {}
    /\ sameInputs(1)
    /\ sinceStart - 1 < Len(framesList[1])
    /\ s.ghostYs[1] = s.birdY

\* C37: from its start click on, the run that follows `runs` finalized runs
\* holds a snapshot of exactly `runs` recordings, the whole catalog; each
\* finalization has put the recording of the run it ends at the end of the
\* catalog, ahead of the next start click; and after each tick every recording
\* of the snapshot has exactly one ghost.
C37_SnapshotPerRun ==
    /\ [](clicked => (Len(framesList) = runs /\ framesList = ghostFramesAll))
    /\ []((clicked /\ pc = "ready" /\ sinceStart >= 1) => Len(s.ghostYs) = runs)
    /\ [][ runs' # runs =>
             /\ ~clicked'
             /\ ghostFramesAll' = Append(ghostFramesAll, rec) ]_vars

\* C37 witness: the third run of a session flies with two ghosts, those of the
\* first and of the second run, which differ.
C37_Witness ==
    /\ runs = 2
    /\ clicked
    /\ pc = "ready"
    /\ sinceStart >= 1
    /\ Len(framesList) = 2
    /\ Len(s.ghostYs) = 2
    /\ framesList[1] # framesList[2]
    /\ inputs[1] # inputs[2]

\* C38: a started run that keeps receiving ticks reaches gameEnd; it does so
\* with lives = 0 or with no def and no pipe left; and with an empty schedule
\* the first tick after the start click ends it.
C38_RunEnds ==
    /\ s.started ~> s.gameEnd
    /\ [](s.gameEnd => (s.lives = 0 \/ (s.remainingDefs = <<>> /\ s.pipes = <<>>)))
    /\ [][ (runningTick /\ pipeDefs = <<>>) => s'.gameEnd ]_vars

\* C38 witness: a run over a schedule with pipes has ended by level
\* completion, lives to spare, after the player flapped.
C38_Witness ==
    /\ pipeDefs # <<>>
    /\ s.gameEnd
    /\ s.lives >= 1
    /\ s.remainingDefs = <<>>
    /\ s.pipes = <<>>
    /\ inputs[1].taps # {}

\* the ids of the pipes of the State that the tick takes out of the list
culledIds ==
    {s.pipes[i].id : i \in 1..Len(s.pipes)}
        \ {s'.pipes[i].id : i \in 1..Len(s'.pipes)}

\* C39: a run ended with a life left has scored as many points as the schedule
\* has defs, and a Running tick removes only pipes that were scored before it.
C39_CompleteScoresAll ==
    /\ []((s.gameEnd /\ s.lives >= 1) => s.score = Len(pipeDefs))
    /\ [][ runningTick => culledIds \subseteq scoredSet ]_vars

\* C39 witness: a schedule of two defs was flown to its end with a life left
\* and two points.
C39_Witness ==
    /\ Len(pipeDefs) = 2
    /\ s.gameEnd
    /\ s.lives >= 1
    /\ s.score = 2
    /\ s.pipes = <<>>

\* the pipes of the running earlier engine that are behind the bird: the ones
\* already taken out, and the live ones whose right edge is behind its right edge
behindBird ==
    LET spawnedSoFar == Len(pipeDefs) - Len(s.remainingDefs)
        behind == {i \in 1..Len(s.pipes) :
                      s.pipes[i].x + PIPE_WIDTH * XScale
                          < (birdX + BIRB_WIDTH) * XScale}
    IN  (spawnedSoFar - Len(s.pipes)) + Cardinality(behind)

\* C40: in main.ts and part_002, where a spawned pipe gets the id (number of
\* live pipes) + i + 1, the ids of a run are unique for every schedule: no two
\* live pipes share an id, no pipe still ahead of the bird carries an id that
\* was scored already, and so the score is the number of pipes behind the bird.
C40_UniqueIdsByCount ==
    /\ \A i, j \in 1..Len(s.pipes) : s.pipes[i].id = s.pipes[j].id => i = j
    /\ \A i \in 1..Len(s.pipes) :
          s.pipes[i].x + PIPE_WIDTH * XScale >= (birdX + BIRB_WIDTH) * XScale
              => s.pipes[i].id \notin scoredSet
    /\ s.score = behindBird

====
